---- MODULE Spec2Model ----
(***************************************************************************)
(* SCION packets (lib/packet/scion.py): the common header codec, the       *)
(* packet header with its path pointers and extension chain, the packet    *)
(* envelope, and the six control packets built on it.                      *)
(*                                                                         *)
(* One object is under test at a time (variable obj, of class cls).  Byte  *)
(* strings are sequences over 0..255.  A Python attribute that may be None *)
(* is an option: None is <<>> and a value v is <<v>>.                      *)
(***************************************************************************)
EXTENDS Integers, Sequences, FiniteSets, TLC

VARIABLES
    cls,      \* class of the object under test
    obj,      \* the object under test (its attributes)
    op,       \* position: the last operation that ran, or the loop it is in
    out,      \* what the last operation returned or raised
    wire,     \* the byte buffer last handed to parse (option)
    origin,   \* the object whose pack() produced the buffer being parsed (option)
    loc       \* locals of SCIONHeader.parse's extension loop

vars == <<cls, obj, op, out, wire, origin, loc>>

---------------------------------------------------------------------------
(* Bounds of the model *)

\* longest payload handed to from_values / set_payload
MaxPayload == 1
\* most opaque fields in a constructed path
MaxOFs == 2
\* most extension headers in a constructed header
MaxExts == 2
\* most opaque-field slots the pointer is advanced in total
MaxAdvance == 3
\* iterations of the extension loop that are followed beyond one per byte of
\* the buffer
MaxWalk == 2

---------------------------------------------------------------------------
(* Options, bytes, integers *)

None == <<>>
Some(v) == <<v>>
IsNone(o) == o = <<>>
Val(o) == o[1]

RECURSIVE BitOr(_, _)
BitOr(a, b) ==
    IF a = 0 THEN b
    ELSE IF b = 0 THEN a
    ELSE (IF a % 2 = 1 \/ b % 2 = 1 THEN 1 ELSE 0) + 2 * BitOr(a \div 2, b \div 2)

RECURSIVE BitAnd(_, _)
BitAnd(a, b) ==
    IF a = 0 \/ b = 0 THEN 0
    ELSE (IF a % 2 = 1 /\ b % 2 = 1 THEN 1 ELSE 0) + 2 * BitAnd(a \div 2, b \div 2)

\* x[from:to] of Python, 0-based, clipped to the sequence (from, to >= 0)
Slice(s, from, to) ==
    LET hi == IF to > Len(s) THEN Len(s) ELSE to
    IN  IF from >= hi THEN <<>> ELSE SubSeq(s, from + 1, hi)

\* x[from:] of Python
SliceFrom(s, from) == Slice(s, from, Len(s))

\* big-endian unsigned integer of n bytes ("uintbe:8n")
RECURSIVE UintBE(_, _)
UintBE(v, n) == IF n = 0 THEN <<>> ELSE UintBE(v \div 256, n - 1) \o <<v % 256>>

\* little-endian unsigned integer of n bytes
RECURSIVE UintLE(_, _)
UintLE(v, n) == IF n = 0 THEN <<>> ELSE <<v % 256>> \o UintLE(v \div 256, n - 1)

RECURSIVE StripZeros(_)
StripZeros(b) == IF b # <<>> /\ Head(b) = 0 THEN StripZeros(Tail(b)) ELSE b

RECURSIVE FromBESmall(_)
FromBESmall(b) ==
    IF b = <<>> THEN 0 ELSE FromBESmall(SubSeq(b, 1, Len(b) - 1)) * 256 + b[Len(b)]

\* the unsigned integer a big-endian byte string holds; one of 2^31 or more is
\* kept as its significant bytes
FromBE(b) ==
    LET s == StripZeros(b)
    IN  IF Len(s) < 4 \/ (Len(s) = 4 /\ s[1] < 128) THEN FromBESmall(s)
        ELSE [big |-> s]

RECURSIVE FromLE(_)
FromLE(b) == IF b = <<>> THEN 0 ELSE b[1] + 256 * FromLE(Tail(b))

RECURSIVE Concat(_)
Concat(ss) == IF ss = <<>> THEN <<>> ELSE Head(ss) \o Concat(Tail(ss))

RECURSIVE SumLen(_)
SumLen(ss) == IF ss = <<>> THEN 0 ELSE Len(Head(ss)) + SumLen(Tail(ss))

\* the value an operation returned / the exception it raised
Returned(v) == [kind |-> "return", v |-> v]
Raised(e) == [kind |-> "raise", v |-> e]
NoResult == [kind |-> "none", v |-> 0]

---------------------------------------------------------------------------
(* PacketType *)

DATA == 0
CERT_CHAIN_REQ_LOCAL == 3
CERT_CHAIN_REQ == 4
CERT_CHAIN_REP == 5
TRC_REQ_LOCAL == 6
TRC_REQ == 7
TRC_REP == 8
BEACON == 101
PATH_MGMT == 108
OFG_KEY_REQ == 114
OFG_KEY_REP == 115
IFID_REQ == 116
IFID_REP == 117

---------------------------------------------------------------------------
(* SCIONCommonHdr *)

SCIONCommonHdr_LEN == 8

\* SCIONCommonHdr(): the attributes set by __init__ (HeaderBase: parsed = False)
SCIONCommonHdr_init ==
    [type |-> DATA, src_addr_len |-> 0, dst_addr_len |-> 0, total_len |-> 0,
     curr_iof_p |-> 0, curr_of_p |-> 0, next_hdr |-> 0, hdr_len |-> 0,
     parsed |-> FALSE]

\* a constructor that counts the addresses only
SCIONCommonHdr_from_values_AddrsOnly(pkt_type, src_addr_len, dst_addr_len, next_hdr) ==
    [SCIONCommonHdr_init EXCEPT
        !.type = pkt_type,
        !.src_addr_len = src_addr_len,
        !.dst_addr_len = dst_addr_len,
        !.next_hdr = next_hdr,
        !.curr_of_p = src_addr_len + dst_addr_len,
        !.curr_iof_p = src_addr_len + dst_addr_len,
        !.hdr_len = src_addr_len + dst_addr_len,
        !.total_len = src_addr_len + dst_addr_len]

SCIONCommonHdr_from_values(pkt_type, src_addr_len, dst_addr_len, next_hdr) ==
    [SCIONCommonHdr_init EXCEPT
        !.type = pkt_type,
        !.src_addr_len = src_addr_len,
        !.dst_addr_len = dst_addr_len,
        !.next_hdr = next_hdr,
        !.curr_of_p = src_addr_len + dst_addr_len,
        !.curr_iof_p = src_addr_len + dst_addr_len,
        !.hdr_len = SCIONCommonHdr_LEN + src_addr_len + dst_addr_len,
        !.total_len = SCIONCommonHdr_LEN + src_addr_len + dst_addr_len]

\* the 16-bit word pack() builds from type and the two address lengths
CommonHdrTypesWord(chdr) ==
    BitOr(BitOr(chdr.type * 4096, chdr.dst_addr_len * 64), chdr.src_addr_len)

\* the three fields parse() masks out of the first 16-bit word
CommonHdrUnpackTypes(chdr, types) ==
    [chdr EXCEPT
        !.type = BitAnd(types, 61440) \div 4096,
        !.src_addr_len = BitAnd(types, 4032) \div 64,
        !.dst_addr_len = BitAnd(types, 63)]

\* self.parse(raw): the header afterwards
SCIONCommonHdr_parse(chdr, raw) ==
    IF Len(raw) < SCIONCommonHdr_LEN
    THEN chdr
    ELSE [CommonHdrUnpackTypes(chdr, FromBE(Slice(raw, 0, 2))) EXCEPT
            !.total_len = FromBE(Slice(raw, 2, 4)),
            !.curr_iof_p = raw[5],
            !.curr_of_p = raw[6],
            !.next_hdr = raw[7],
            !.hdr_len = raw[8],
            !.parsed = TRUE]

\* bitstring.pack refuses a value that does not fit its uintbe width
CommonHdrFits(chdr) ==
    /\ CommonHdrTypesWord(chdr) \in 0..65535
    /\ chdr.total_len \in 0..65535
    /\ chdr.curr_iof_p \in 0..255
    /\ chdr.curr_of_p \in 0..255
    /\ chdr.next_hdr \in 0..255
    /\ chdr.hdr_len \in 0..255

\* self.pack(): the 8 bytes returned (CommonHdrFits holds)
SCIONCommonHdr_pack(chdr) ==
    UintBE(CommonHdrTypesWord(chdr), 2) \o UintBE(chdr.total_len, 2)
        \o <<chdr.curr_iof_p, chdr.curr_of_p, chdr.next_hdr, chdr.hdr_len>>

---------------------------------------------------------------------------
(* Collaborators of scion.py: addresses, opaque fields, paths, extension   *)
(* headers, and the payload attribute of PacketBase                        *)

\* OpaqueField.LEN and InfoOpaqueField.LEN
OpaqueField_LEN == 8

\* PathType: the discriminant carried by a path's first (info) opaque field
PathType_EMPTY == 0
PathType_CORE == 64
PathType_CROSS_OVER == 96
PathType_PEER_LINK == 120

\* ICNExtHdr.TYPE, the one extension type with a dedicated class
ICNExtHdr_TYPE == 220

\* SCIONAddr: an address is the bytes it packs to; addr_len is their number
SCIONAddr_addr_len(addr) == Len(addr)
SCIONAddr_pack(addr) == addr
SCIONAddr_parse(raw) == raw

\* An opaque field: 7 bits of info, the up flag, and 7 more bytes (one kept)
OpaqueField_pack(of) ==
    <<of.info * 2 + (IF of.up_flag THEN 1 ELSE 0), of.tag, 0, 0, 0, 0, 0, 0>>

OpaqueField_parse(raw) ==
    [info |-> raw[1] \div 2, up_flag |-> raw[1] % 2 = 1, tag |-> raw[2]]

\* InfoOpaqueField(raw).info; InfoOpaqueField() and a short raw leave it 0
InfoOpaqueField_info(raw) ==
    IF Len(raw) < OpaqueField_LEN THEN 0 ELSE raw[1] \div 2

\* A path: its class and its opaque fields in order
EmptyPath == [kind |-> "EmptyPath", ofs |-> <<>>]

Path_pack(path) == Concat([i \in 1..Len(path.ofs) |-> OpaqueField_pack(path.ofs[i])])

\* CorePath(raw), CrossOverPath(raw), PeerPath(raw): one field per 8 bytes
Path_parse(kind, raw) ==
    [kind |-> kind,
     ofs |-> [i \in 1..(Len(raw) \div OpaqueField_LEN) |->
                OpaqueField_parse(Slice(raw, (i - 1) * OpaqueField_LEN,
                                        i * OpaqueField_LEN))]]

\* path.get_of(index): the field at index (0-based), None outside the path
Path_get_of(path, index) ==
    IF index >= 0 /\ index < Len(path.ofs) THEN Some(path.ofs[index + 1]) ELSE None

\* path.reverse(): the element order and every element's direction bit flip
Path_reverse(path) ==
    [path EXCEPT !.ofs =
        [i \in 1..Len(path.ofs) |->
            [path.ofs[Len(path.ofs) + 1 - i] EXCEPT !.up_flag = ~@]]]

\* An extension header: its class and its bytes; byte 0 is the type of the
\* header after it, byte 1 its own length
ExtHdr_pack(ext) == ext.raw
ExtHdr_len(ext) == Len(ext.raw)

ExtHdrsLen(exts) == SumLen([i \in 1..Len(exts) |-> exts[i].raw])
ExtHdrsPack(exts) == Concat([i \in 1..Len(exts) |-> ExtHdr_pack(exts[i])])

---------------------------------------------------------------------------
(* SCIONHeader *)

SCIONHeader_MIN_LEN == 16

\* SCIONHeader(): the attributes set by __init__
SCIONHeader_init ==
    [common_hdr |-> None, src_addr |-> None, dst_addr |-> None, path |-> None,
     extension_hdrs |-> <<>>, parsed |-> FALSE]

SCIONHeader_from_values(src, dst, pkt_type, path, ext_hdrs, next_hdr) ==
    LET chdr == SCIONCommonHdr_from_values(pkt_type, SCIONAddr_addr_len(src),
                                           SCIONAddr_addr_len(dst), next_hdr)
        path_len == IF IsNone(path) THEN 0 ELSE Len(Path_pack(Val(path)))
    IN  [SCIONHeader_init EXCEPT
            !.src_addr = Some(src),
            !.dst_addr = Some(dst),
            !.path = path,
            !.extension_hdrs = ext_hdrs,
            !.common_hdr = Some([chdr EXCEPT
                !.hdr_len = @ + path_len,
                !.total_len = @ + path_len + ExtHdrsLen(ext_hdrs)])]

\* the path parse() builds from the discriminant at offset (lines 272-286)
HeaderParsePath(old, raw, offset, hdr_len) ==
    LET info == IF offset = hdr_len THEN InfoOpaqueField_info(<<>>)
                ELSE InfoOpaqueField_info(Slice(raw, offset, offset + OpaqueField_LEN))
        body == Slice(raw, offset, hdr_len)
    IN  IF info = PathType_CORE THEN Some(Path_parse("CorePath", body))
        ELSE IF info = PathType_CROSS_OVER THEN Some(Path_parse("CrossOverPath", body))
        ELSE IF info = PathType_PEER_LINK THEN Some(Path_parse("PeerPath", body))
        ELSE IF info = PathType_EMPTY THEN Some(EmptyPath)
        ELSE old

\* parse() from its first line up to the extension loop (lines 252-292);
\* raw has at least MIN_LEN bytes
SCIONHeader_parse_head(hdr, raw) ==
    LET chdr == SCIONCommonHdr_parse(SCIONCommonHdr_init,
                                     Slice(raw, 0, SCIONCommonHdr_LEN))
        o1 == SCIONCommonHdr_LEN
        o2 == o1 + chdr.src_addr_len
        o3 == o2 + chdr.dst_addr_len
    IN  [hdr EXCEPT
            !.common_hdr = Some(chdr),
            !.src_addr = Some(SCIONAddr_parse(Slice(raw, o1, o2))),
            !.dst_addr = Some(SCIONAddr_parse(Slice(raw, o2, o3))),
            !.path = HeaderParsePath(hdr.path, raw, o3, chdr.hdr_len)]

\* the extension header one iteration of the loop appends (lines 298-303)
ExtHdrAt(raw, offset, cur_hdr_type, hdr_len) ==
    [variant |-> IF cur_hdr_type = ICNExtHdr_TYPE THEN "ICNExtHdr" ELSE "ExtensionHeader",
     raw |-> Slice(raw, offset, offset + hdr_len)]

\* the loop's locals when it is entered (lines 287, 292)
WalkEnter(hdr) ==
    [offset |-> Val(hdr.common_hdr).hdr_len,
     cur_hdr_type |-> Val(hdr.common_hdr).next_hdr,
     iter |-> 0]

WalkIdle == [offset |-> 0, cur_hdr_type |-> 0, iter |-> 0]

\* an iteration that steps over the two-byte prefix only
WalkNext_PrefixOnly(l, raw) ==
    [offset |-> l.offset + 2,
     cur_hdr_type |-> raw[l.offset + 1],
     iter |-> l.iter + 1]

\* one iteration (lines 294-305); raw holds 2 bytes at offset
WalkNext(l, raw) ==
    [offset |-> l.offset + raw[l.offset + 2],
     cur_hdr_type |-> raw[l.offset + 1],
     iter |-> l.iter + 1]

WalkAppend(hdr, l, raw) ==
    [hdr EXCEPT !.extension_hdrs =
        Append(@, ExtHdrAt(raw, l.offset, l.cur_hdr_type, raw[l.offset + 2]))]

\* len(hdr) (lines 411-415); common_hdr is set
SCIONHeader_len(hdr) == Val(hdr.common_hdr).hdr_len + ExtHdrsLen(hdr.extension_hdrs)

\* pack() (lines 308-320); common_hdr and both addresses are set
SCIONHeader_pack(hdr) ==
    SCIONCommonHdr_pack(Val(hdr.common_hdr))
        \o SCIONAddr_pack(Val(hdr.src_addr))
        \o SCIONAddr_pack(Val(hdr.dst_addr))
        \o (IF IsNone(hdr.path) THEN <<>> ELSE Path_pack(Val(hdr.path)))
        \o ExtHdrsPack(hdr.extension_hdrs)

\* index of the opaque field a pointer designates (lines 329-331, 340-342)
OFIndex(hdr, ptr) ==
    (ptr - (Val(hdr.common_hdr).src_addr_len + Val(hdr.common_hdr).dst_addr_len))
        \div OpaqueField_LEN

SCIONHeader_get_current_of(hdr) ==
    IF IsNone(hdr.path) THEN None
    ELSE Path_get_of(Val(hdr.path), OFIndex(hdr, Val(hdr.common_hdr).curr_of_p))

SCIONHeader_get_current_iof(hdr) ==
    IF IsNone(hdr.path) THEN None
    ELSE Path_get_of(Val(hdr.path), OFIndex(hdr, Val(hdr.common_hdr).curr_iof_p))

SCIONHeader_get_relative_of(hdr, n) ==
    IF IsNone(hdr.path) THEN None
    ELSE Path_get_of(Val(hdr.path), OFIndex(hdr, Val(hdr.common_hdr).curr_of_p) + n)

SCIONHeader_get_next_of(hdr) ==
    IF IsNone(hdr.path) THEN None
    ELSE Path_get_of(Val(hdr.path), OFIndex(hdr, Val(hdr.common_hdr).curr_of_p) + 1)

SCIONHeader_increase_of(hdr, number) ==
    [hdr EXCEPT !.common_hdr[1].curr_of_p = @ + number * OpaqueField_LEN]

\* set_downpath(): clears the flag of the field get_current_iof() returns
SCIONHeader_set_downpath(hdr) ==
    IF IsNone(SCIONHeader_get_current_iof(hdr)) THEN hdr
    ELSE [hdr EXCEPT
            !.path[1].ofs[OFIndex(hdr, Val(hdr.common_hdr).curr_iof_p) + 1].up_flag
                = FALSE]

\* is_on_up_path(): the value returned.  The else branch evaluates True and
\* falls off the end of the function, which returns None
SCIONHeader_is_on_up_path(hdr) ==
    IF ~IsNone(SCIONHeader_get_current_iof(hdr))
    THEN Some(Val(SCIONHeader_get_current_iof(hdr)).up_flag)
    ELSE None

\* a boundary test that leaves the common header's length out
SCIONHeader_is_last_path_of_NoCommonHdr(hdr) ==
    Val(hdr.common_hdr).curr_of_p + OpaqueField_LEN = Val(hdr.common_hdr).hdr_len

\* is_last_path_of() (lines 393-399)
SCIONHeader_is_last_path_of(hdr) ==
    Val(hdr.common_hdr).curr_of_p + (SCIONCommonHdr_LEN + OpaqueField_LEN)
        = Val(hdr.common_hdr).hdr_len

\* reverse(), line 405: the two addresses change places
SCIONHeader_reverse_swap(hdr) ==
    [hdr EXCEPT !.src_addr = hdr.dst_addr, !.dst_addr = hdr.src_addr]

\* reverse() (lines 401-409) of a header that has a path
SCIONHeader_reverse(hdr) ==
    LET start == Val(hdr.common_hdr).src_addr_len + Val(hdr.common_hdr).dst_addr_len
    IN  [SCIONHeader_reverse_swap(hdr) EXCEPT
            !.path = Some(Path_reverse(Val(hdr.path))),
            !.common_hdr[1].curr_of_p = start,
            !.common_hdr[1].curr_iof_p = start]

---------------------------------------------------------------------------
(* TYPES_SRC, TYPES_DST and get_addr_from_type *)

TYPES_SRC ==
    (CERT_CHAIN_REP :> 33611786) @@ (PATH_MGMT :> 67166218)
        @@ (TRC_REP :> 134275082) @@ (BEACON :> 16834570)
        @@ (OFG_KEY_REP :> 117497866) @@ (IFID_REP :> 167829514)

TYPES_DST ==
    (CERT_CHAIN_REQ_LOCAL :> 151052298) @@ (CERT_CHAIN_REQ :> 33611786)
        @@ (PATH_MGMT :> 67166218) @@ (TRC_REQ_LOCAL :> 100720650)
        @@ (TRC_REQ :> 134275082) @@ (OFG_KEY_REQ :> 117497866)
        @@ (IFID_REQ :> 167829514)

\* IPv4HostAddr(n): the 4 bytes whose little-endian value is n
IPv4HostAddr(n) == UintLE(n, 4)

\* SCIONAddr.from_values(isd_id, ad_id, host_addr)
SCIONAddr_from_values(isd_id, ad_id, host_addr) ==
    UintBE(isd_id, 2) \o UintBE(ad_id, 8) \o host_addr

\* get_addr_from_type(ptype); ptype is in one of the two tables
get_addr_from_type(ptype) ==
    IF ptype \in DOMAIN TYPES_SRC
    THEN SCIONAddr_from_values(0, 0, IPv4HostAddr(TYPES_SRC[ptype]))
    ELSE SCIONAddr_from_values(0, 0, IPv4HostAddr(TYPES_DST[ptype]))

\* get_addr_from_type(ptype) raises KeyError at line 103 (TYPES_DST[ptype])
get_addr_from_type_raises(ptype) ==
    ptype \notin DOMAIN TYPES_SRC /\ ptype \notin DOMAIN TYPES_DST

\* TYPES_SRC_INV and TYPES_DST_INV: the tables with keys and values exchanged
TYPES_SRC_INV ==
    [v \in {TYPES_SRC[k] : k \in DOMAIN TYPES_SRC} |->
        CHOOSE k \in DOMAIN TYPES_SRC : TYPES_SRC[k] = v]
TYPES_DST_INV ==
    [v \in {TYPES_DST[k] : k \in DOMAIN TYPES_DST} |->
        CHOOSE k \in DOMAIN TYPES_DST : TYPES_DST[k] = v]

\* addr.host_addr.to_int(endianness='little'): the host part of a SCIONAddr
\* follows its 2 + 8 bytes of ISD and AD
SCIONAddr_host_int(addr) == FromLE(SliceFrom(addr, 10))

\* a lookup that asks the destination table first
get_type_DstFirst(src_addr, dst_addr) ==
    LET isrc_addr == SCIONAddr_host_int(src_addr)
        idst_addr == SCIONAddr_host_int(dst_addr)
    IN  IF idst_addr \in DOMAIN TYPES_DST_INV THEN TYPES_DST_INV[idst_addr]
        ELSE IF isrc_addr \in DOMAIN TYPES_SRC_INV THEN TYPES_SRC_INV[isrc_addr]
        ELSE DATA

\* get_type(pkt) (lines 108-123), of pkt.hdr.src_addr and pkt.hdr.dst_addr
get_type(src_addr, dst_addr) ==
    LET isrc_addr == SCIONAddr_host_int(src_addr)
        idst_addr == SCIONAddr_host_int(dst_addr)
    IN  IF isrc_addr \in DOMAIN TYPES_SRC_INV THEN TYPES_SRC_INV[isrc_addr]
        ELSE IF idst_addr \in DOMAIN TYPES_DST_INV THEN TYPES_DST_INV[idst_addr]
        ELSE DATA

---------------------------------------------------------------------------
(* SCIONPacket *)

SCIONPacket_MIN_LEN == 8

\* SCIONPacket() and its subclasses: the attributes set by __init__; f holds
\* the attributes a subclass adds
SCIONPacket_init(f) ==
    [hdr |-> None, payload |-> None, payload_len |-> 0, parsed |-> FALSE,
     raw |-> None, f |-> f]

\* PacketBase.set_payload: stores the payload
PacketBase_set_payload(pkt, payload) == [pkt EXCEPT !.payload = Some(payload)]

\* set_payload(payload) (lines 460-465); hdr and its common header are set
SCIONPacket_set_payload(pkt, payload) ==
    [PacketBase_set_payload(pkt, payload) EXCEPT
        !.hdr[1].common_hdr[1].total_len = (@ - pkt.payload_len) + Len(payload),
        !.payload_len = Len(payload)]

\* "self.payload = payload": the payload attribute of PacketBase is a property
\* whose setter is set_payload
PayloadAssign(pkt, payload) == SCIONPacket_set_payload(pkt, payload)

SCIONPacket_from_values(src, dst, payload, path, ext_hdrs, next_hdr, pkt_type) ==
    PayloadAssign(
        [SCIONPacket_init(<<>>) EXCEPT
            !.hdr = Some(SCIONHeader_from_values(src, dst, pkt_type, path,
                                                 ext_hdrs, next_hdr))],
        payload)

\* parse(), lines 479-482, after the header has been parsed
SCIONPacket_parse_tail(pkt, raw) ==
    LET hdr_len == SCIONHeader_len(Val(pkt.hdr))
        p == PayloadAssign([pkt EXCEPT !.payload_len = Len(raw) - hdr_len],
                           SliceFrom(raw, hdr_len))
    IN  [p EXCEPT !.parsed = TRUE]

\* pack() (lines 484-495); the payload is bytes
SCIONPacket_pack(pkt) == SCIONHeader_pack(Val(pkt.hdr)) \o Val(pkt.payload)

---------------------------------------------------------------------------
(* The control packets *)

\* struct "H": 16 bits in the byte order of the machine
ByteOrders == {"little", "big"}
StructH(order, v) == IF order = "little" THEN UintLE(v, 2) ELSE UintBE(v, 2)
StructUnH(order, b) == IF order = "little" THEN FromLE(b) ELSE FromBESmall(b)

\* struct.pack("HH", a, b)
StructPackHH(order, a, b) == StructH(order, a) \o StructH(order, b)

IFIDRequest_fields == [request_id |-> None]
IFIDReply_fields == [reply_id |-> None, request_id |-> None]
CertChainRequest_fields ==
    [ingress_if |-> 0, src_isd |-> 0, src_ad |-> 0, isd_id |-> 0, ad_id |-> 0,
     version |-> 0]
CertChainReply_fields == [isd_id |-> 0, ad_id |-> 0, version |-> 0, cert_chain |-> <<>>]
TRCRequest_fields ==
    [ingress_if |-> 0, src_isd |-> 0, src_ad |-> 0, isd_id |-> 0, version |-> 0]
TRCReply_fields == [isd_id |-> 0, version |-> 0, trc |-> <<>>]

CertChainReply_MIN_LEN == 14
TRCReply_MIN_LEN == 6

\* the type the packet's name suggests
IFIDRequest_hdr_type_Named == IFID_REQ

\* the header type IFIDRequest.from_values and IFIDReply.from_values pass
IFIDRequest_hdr_type == DATA
IFIDReply_hdr_type == DATA

IFIDRequest_from_values(order, src, request_id) ==
    PayloadAssign(
        [SCIONPacket_init([request_id |-> Some(request_id)]) EXCEPT
            !.hdr = Some(SCIONHeader_from_values(src, get_addr_from_type(IFID_REQ),
                                                 IFIDRequest_hdr_type, None, <<>>, 0))],
        StructPackHH(order, 0, request_id))

IFIDReply_from_values(dst, reply_id, request_id) ==
    [SCIONPacket_init([reply_id |-> Some(reply_id), request_id |-> Some(request_id)])
        EXCEPT !.hdr = Some(SCIONHeader_from_values(get_addr_from_type(IFID_REP), dst,
                                                   IFIDReply_hdr_type, None, <<>>, 0))]

CertChainRequest_payload(f) ==
    UintBE(f.ingress_if, 2) \o UintBE(f.src_isd, 2) \o UintBE(f.src_ad, 8)
        \o UintBE(f.isd_id, 2) \o UintBE(f.ad_id, 8) \o UintBE(f.version, 4)

CertChainRequest_from_values(req_type, src, f) ==
    PayloadAssign(
        [SCIONPacket_init(f) EXCEPT
            !.hdr = Some(SCIONHeader_from_values(src, get_addr_from_type(req_type),
                                                 req_type, None, <<>>, 0))],
        CertChainRequest_payload(f))

CertChainReply_payload(f) ==
    UintBE(f.isd_id, 2) \o UintBE(f.ad_id, 8) \o UintBE(f.version, 4) \o f.cert_chain

CertChainReply_from_values(dst, f) ==
    PayloadAssign(
        [SCIONPacket_init(f) EXCEPT
            !.hdr = Some(SCIONHeader_from_values(get_addr_from_type(CERT_CHAIN_REP),
                                                 dst, CERT_CHAIN_REP, None, <<>>, 0))],
        CertChainReply_payload(f))

TRCRequest_payload(f) ==
    UintBE(f.ingress_if, 2) \o UintBE(f.src_isd, 2) \o UintBE(f.src_ad, 8)
        \o UintBE(f.isd_id, 2) \o UintBE(f.version, 4)

TRCRequest_from_values(req_type, src, f) ==
    PayloadAssign(
        [SCIONPacket_init(f) EXCEPT
            !.hdr = Some(SCIONHeader_from_values(src, get_addr_from_type(req_type),
                                                 req_type, None, <<>>, 0))],
        TRCRequest_payload(f))

TRCReply_payload(f) == UintBE(f.isd_id, 2) \o UintBE(f.version, 4) \o f.trc

TRCReply_from_values(dst, f) ==
    PayloadAssign(
        [SCIONPacket_init(f) EXCEPT
            !.hdr = Some(SCIONHeader_from_values(get_addr_from_type(TRC_REP), dst,
                                                 TRC_REP, None, <<>>, 0))],
        TRCReply_payload(f))

\* the bytes a subclass's parse() needs in the payload: struct.unpack("HH")
\* takes exactly 4, bits.unpack at least the fixed fields
DecodeNeeds(c, n) ==
    CASE c = "IFIDRequest" -> n = 4
      [] c = "IFIDReply" -> n = 4
      [] c = "CertChainRequest" -> n >= 34
      [] c = "CertChainReply" -> n >= CertChainReply_MIN_LEN
      [] c = "TRCRequest" -> n >= 18
      [] c = "TRCReply" -> n >= TRCReply_MIN_LEN
      [] OTHER -> TRUE

\* the exception a subclass's parse() raises on a payload it cannot decode
DecodeError(c, payload) ==
    IF c \in {"IFIDRequest", "IFIDReply"}
    THEN (IF IsNone(payload) THEN "TypeError" ELSE "struct.error")
    ELSE "ReadError"

\* a remainder that begins inside the fixed fields
TRCReply_tail_Early(p) == SliceFrom(p, TRCReply_MIN_LEN - 2)

\* the remainder a reply's parse() keeps after its fixed fields
CertChainReply_tail(p) == SliceFrom(p, CertChainReply_MIN_LEN)
TRCReply_tail(p) == SliceFrom(p, TRCReply_MIN_LEN)

\* the attributes a subclass's parse() decodes from payload p
DecodeFields(c, order, p) ==
    CASE c = "IFIDRequest" -> [request_id |-> Some(StructUnH(order, Slice(p, 2, 4)))]
      [] c = "IFIDReply" ->
            [reply_id |-> Some(StructUnH(order, Slice(p, 0, 2))),
             request_id |-> Some(StructUnH(order, Slice(p, 2, 4)))]
      [] c = "CertChainRequest" ->
            [ingress_if |-> FromBE(Slice(p, 0, 2)), src_isd |-> FromBE(Slice(p, 2, 4)),
             src_ad |-> FromBE(Slice(p, 4, 12)), isd_id |-> FromBE(Slice(p, 12, 14)),
             ad_id |-> FromBE(Slice(p, 14, 22)), version |-> FromBE(Slice(p, 22, 26))]
      [] c = "CertChainReply" ->
            [isd_id |-> FromBE(Slice(p, 0, 2)), ad_id |-> FromBE(Slice(p, 2, 10)),
             version |-> FromBE(Slice(p, 10, 14)), cert_chain |-> CertChainReply_tail(p)]
      [] c = "TRCRequest" ->
            [ingress_if |-> FromBE(Slice(p, 0, 2)), src_isd |-> FromBE(Slice(p, 2, 4)),
             src_ad |-> FromBE(Slice(p, 4, 12)), isd_id |-> FromBE(Slice(p, 12, 14)),
             version |-> FromBE(Slice(p, 14, 18))]
      [] c = "TRCReply" ->
            [isd_id |-> FromBE(Slice(p, 0, 2)), version |-> FromBE(Slice(p, 2, 6)),
             trc |-> TRCReply_tail(p)]

---------------------------------------------------------------------------
(* The values the operations are called with *)

Classes ==
    {"SCIONCommonHdr", "SCIONHeader", "SCIONPacket", "IFIDRequest", "IFIDReply",
     "CertChainRequest", "CertChainReply", "TRCRequest", "TRCReply"}
ControlClasses == Classes \ {"SCIONCommonHdr", "SCIONHeader", "SCIONPacket"}
PacketClasses == ControlClasses \cup {"SCIONPacket"}

SrcAddrLens == {0, 4}
DstAddrLens == {0, 4, 8}
Addr(n, salt) == [i \in 1..n |-> 16 * salt + i]
SrcAddrs == {Addr(n, 1) : n \in SrcAddrLens}
DstAddrs == {Addr(n, 2) : n \in DstAddrLens}

Payload(n) == [i \in 1..n |-> 40 + i]
Payloads == {Payload(n) : n \in 0..MaxPayload}

\* a path of n opaque fields: an info field, then hop fields
PathOf(n) ==
    LET k == n % 3
        kind == IF k = 1 THEN "CorePath" ELSE IF k = 2 THEN "CrossOverPath" ELSE "PeerPath"
        info == IF k = 1 THEN PathType_CORE
                ELSE IF k = 2 THEN PathType_CROSS_OVER ELSE PathType_PEER_LINK
    IN  [kind |-> kind,
         ofs |-> [i \in 1..n |->
                    IF i = 1 THEN [info |-> info, up_flag |-> TRUE, tag |-> 1]
                    ELSE [info |-> 0, up_flag |-> FALSE, tag |-> i]]]
Paths == {None, Some(EmptyPath)} \cup {Some(PathOf(n)) : n \in 1..MaxOFs}

\* a chain of m extension headers: the i-th has i bytes after its 2-byte prefix
ExtType(i) == IF i = 1 THEN ICNExtHdr_TYPE ELSE 6 + i
ExtRec(i, m) ==
    [variant |-> IF i = 1 THEN "ICNExtHdr" ELSE "ExtensionHeader",
     raw |-> <<(IF i < m THEN ExtType(i + 1) ELSE 0), 2 + i>> \o [j \in 1..i |-> 100 + j]]
ExtChain(m) ==
    [next_hdr |-> IF m = 0 THEN 0 ELSE ExtType(1),
     exts |-> [i \in 1..m |-> ExtRec(i, m)]]
ExtChoices ==
    {ExtChain(m) : m \in 0..MaxExts} \cup {[next_hdr |-> 0, exts |-> ExtChain(1).exts]}

\* the arguments of SCIONPacket.from_values: plain addresses with every path,
\* extension list and payload, and reserved addresses on either side
PacketArgs ==
    {[src |-> src, dst |-> dst, payload |-> payload, path |-> path, exts |-> e.exts,
      next_hdr |-> e.next_hdr] :
        src \in SrcAddrs, dst \in DstAddrs, payload \in Payloads, path \in Paths,
        e \in ExtChoices}
    \cup
    {[src |-> src, dst |-> dst, payload |-> <<>>, path |-> None, exts |-> <<>>,
      next_hdr |-> 0] :
        src \in {Addr(4, 1), get_addr_from_type(CERT_CHAIN_REP),
                 get_addr_from_type(TRC_REQ_LOCAL)},
        dst \in {Addr(4, 2), get_addr_from_type(TRC_REQ), get_addr_from_type(BEACON)}}

\* the types get_addr_from_type is asked for
PacketTypes ==
    {DATA, CERT_CHAIN_REQ_LOCAL, CERT_CHAIN_REQ, CERT_CHAIN_REP, TRC_REQ_LOCAL, TRC_REQ,
     TRC_REP, BEACON, PATH_MGMT, OFG_KEY_REQ, OFG_KEY_REP, IFID_REQ, IFID_REP}

Ids == {1, 258}
Blobs == {Payload(n) : n \in 0..MaxPayload} \cup {<<65, 66, 67, 68>>}

CertChainRequestInputs ==
    {[ingress_if |-> 1, src_isd |-> 2, src_ad |-> 3, isd_id |-> i, ad_id |-> 70000,
      version |-> 2] : i \in Ids}
CertChainReplyInputs ==
    {[isd_id |-> i, ad_id |-> 70000, version |-> 2, cert_chain |-> b] :
        i \in Ids, b \in Blobs}
TRCRequestInputs ==
    {[ingress_if |-> 1, src_isd |-> 2, src_ad |-> 3, isd_id |-> i, version |-> 2] :
        i \in Ids}
TRCReplyInputs == {[isd_id |-> i, version |-> 2, trc |-> b] : i \in Ids, b \in Blobs}

\* the object a constructor without raw returns
Fresh(c) ==
    CASE c = "SCIONCommonHdr" -> SCIONCommonHdr_init
      [] c = "SCIONHeader" -> SCIONHeader_init
      [] c = "SCIONPacket" -> SCIONPacket_init(<<>>)
      [] c = "IFIDRequest" -> SCIONPacket_init(IFIDRequest_fields)
      [] c = "IFIDReply" -> SCIONPacket_init(IFIDReply_fields)
      [] c = "CertChainRequest" -> SCIONPacket_init(CertChainRequest_fields)
      [] c = "CertChainReply" -> SCIONPacket_init(CertChainReply_fields)
      [] c = "TRCRequest" -> SCIONPacket_init(TRCRequest_fields)
      [] c = "TRCReply" -> SCIONPacket_init(TRCReply_fields)

\* Buffers received rather than packed here: a packed packet of the class, as
\* it is, cut short, extended by a byte, or with one header byte changed
SamplePacket(c) ==
    CASE c = "IFIDRequest" -> IFIDRequest_from_values("big", Addr(4, 1), 258)
      [] c = "IFIDReply" ->
            PayloadAssign(IFIDReply_from_values(Addr(4, 2), 2, 258),
                          StructPackHH("big", 2, 258))
      [] c = "CertChainRequest" ->
            CertChainRequest_from_values(CERT_CHAIN_REQ, Addr(4, 1),
                [ingress_if |-> 1, src_isd |-> 2, src_ad |-> 3, isd_id |-> 258,
                 ad_id |-> 70000, version |-> 2])
      [] c = "CertChainReply" ->
            CertChainReply_from_values(Addr(4, 2),
                [isd_id |-> 258, ad_id |-> 70000, version |-> 2, cert_chain |-> <<65, 66>>])
      [] c = "TRCRequest" ->
            TRCRequest_from_values(TRC_REQ, Addr(4, 1),
                [ingress_if |-> 1, src_isd |-> 2, src_ad |-> 3, isd_id |-> 258,
                 version |-> 2])
      [] c = "TRCReply" ->
            TRCReply_from_values(Addr(4, 2),
                [isd_id |-> 258, version |-> 2, trc |-> <<65, 66>>])
      [] OTHER ->
            SCIONPacket_from_values(Addr(4, 1), Addr(4, 2), Payload(2), Some(PathOf(3)),
                                    ExtChain(2).exts, ExtChain(2).next_hdr, DATA)

SetByte(w, i, v) == IF i \in 1..Len(w) THEN [w EXCEPT ![i] = v] ELSE w

Mangled(w) ==
    {Slice(w, 0, n) : n \in 0..Len(w)}
        \cup {w \o <<0>>}
        \cup {SetByte(w, i, v) : i \in {4, 6, 7, w[8] + 1, w[8] + 2}, v \in {0, 1, 9}}

RawBuffers(c) == Mangled(SCIONPacket_pack(SamplePacket(c)))

---------------------------------------------------------------------------
(* The state machine *)

\* the header of the object under test, and the object with that header replaced
HdrOf(c, o) == IF c = "SCIONHeader" THEN o ELSE Val(o.hdr)
WithHdr(c, o, h) == IF c = "SCIONHeader" THEN h ELSE [o EXCEPT !.hdr = Some(h)]

\* positions at which the object is constructed and at rest
ReadyOps ==
    {"from_values", "set_payload", "increase_of", "set_downpath", "parsed", "reverse"}

Usable ==
    /\ op \in ReadyOps
    /\ cls # "SCIONCommonHdr"
    /\ IF cls = "SCIONHeader" THEN TRUE ELSE ~IsNone(obj.hdr)
    /\ ~IsNone(HdrOf(cls, obj).common_hdr)

Init ==
    /\ cls \in Classes
    /\ obj = Fresh(cls)
    /\ op = "init"
    /\ out = NoResult
    /\ wire = None
    /\ origin = None
    /\ loc = WalkIdle

Constructed(o) ==
    /\ op = "init"
    /\ obj' = o
    /\ op' = "from_values"
    /\ UNCHANGED <<cls, out, wire, origin, loc>>

CommonHdrFromValues ==
    /\ cls = "SCIONCommonHdr"
    /\ \E t \in {0, 5, 15}, s \in {0, 4, 63}, d \in {0, 8, 63}, n \in {0, ICNExtHdr_TYPE} :
            Constructed(SCIONCommonHdr_from_values(t, s, d, n))

\* the attribute assignments clients of the common header make (lines 242-245,
\* 369, 407-409, 463-465)
CommonHdrAssign ==
    /\ cls = "SCIONCommonHdr"
    /\ op = "from_values"
    /\ \E tl \in {0, 300, 65535}, p \in {0, 24, 255}, hl \in {8, 255} :
            obj' = [obj EXCEPT !.total_len = tl, !.curr_iof_p = p, !.curr_of_p = 255 - p,
                               !.hdr_len = hl]
    /\ op' = "assign"
    /\ UNCHANGED <<cls, out, wire, origin, loc>>

CommonHdrPack ==
    /\ cls = "SCIONCommonHdr"
    /\ op \in {"from_values", "assign"}
    /\ out' = IF CommonHdrFits(obj) THEN Returned(SCIONCommonHdr_pack(obj))
              ELSE Raised("CreationError")
    /\ op' = "pack"
    /\ UNCHANGED <<cls, obj, wire, origin, loc>>

CommonHdrParse ==
    /\ cls = "SCIONCommonHdr"
    /\ \E raw \in (IF op = "pack" /\ out.kind = "return" THEN {out.v} ELSE {})
                    \cup (IF op = "init" THEN RawBuffers(cls) ELSE {}) :
        /\ obj' = SCIONCommonHdr_parse(Fresh(cls), raw)
        /\ origin' = IF op = "pack" THEN Some(obj) ELSE None
        /\ wire' = Some(raw)
    /\ op' = "parse_returned"
    /\ out' = Returned(None)
    /\ UNCHANGED <<cls, loc>>

HeaderFromValues ==
    /\ cls = "SCIONHeader"
    /\ \E src \in SrcAddrs, dst \in DstAddrs, path \in Paths, e \in ExtChoices :
            Constructed(SCIONHeader_from_values(src, dst, DATA, path, e.exts, e.next_hdr))

HeaderPack ==
    /\ Usable
    /\ cls = "SCIONHeader"
    /\ IsNone(origin)
    /\ out' = IF CommonHdrFits(Val(obj.common_hdr))
              THEN Returned(SCIONHeader_pack(obj))
              ELSE Raised("CreationError")
    /\ op' = "pack"
    /\ UNCHANGED <<cls, obj, wire, origin, loc>>

PacketFromValues ==
    /\ cls = "SCIONPacket"
    /\ \E a \in PacketArgs :
            Constructed(SCIONPacket_from_values(a.src, a.dst, a.payload, a.path, a.exts,
                                                a.next_hdr, DATA))

IFIDRequestFromValues ==
    /\ cls = "IFIDRequest"
    /\ \E order \in ByteOrders, src \in SrcAddrs, id \in Ids :
            Constructed(IFIDRequest_from_values(order, src, id))

IFIDReplyFromValues ==
    /\ cls = "IFIDReply"
    /\ \E dst \in DstAddrs, id \in Ids :
            Constructed(IFIDReply_from_values(dst, 2, id))

CertChainRequestFromValues ==
    /\ cls = "CertChainRequest"
    /\ \E t \in {CERT_CHAIN_REQ_LOCAL, CERT_CHAIN_REQ}, src \in SrcAddrs,
          f \in CertChainRequestInputs :
            Constructed(CertChainRequest_from_values(t, src, f))

CertChainReplyFromValues ==
    /\ cls = "CertChainReply"
    /\ \E dst \in DstAddrs, f \in CertChainReplyInputs :
            Constructed(CertChainReply_from_values(dst, f))

TRCRequestFromValues ==
    /\ cls = "TRCRequest"
    /\ \E t \in {TRC_REQ_LOCAL, TRC_REQ}, src \in SrcAddrs, f \in TRCRequestInputs :
            Constructed(TRCRequest_from_values(t, src, f))

TRCReplyFromValues ==
    /\ cls = "TRCReply"
    /\ \E dst \in DstAddrs, f \in TRCReplyInputs :
            Constructed(TRCReply_from_values(dst, f))

SetPayload ==
    /\ Usable
    /\ cls \in PacketClasses
    /\ \E payload \in Payloads : obj' = SCIONPacket_set_payload(obj, payload)
    /\ op' = "set_payload"
    /\ out' = Returned(None)
    /\ UNCHANGED <<cls, wire, origin, loc>>

\* the pointer operations are followed on objects that were constructed or
\* parsed from a received buffer
IncreaseOf ==
    /\ Usable
    /\ IsNone(origin)
    /\ \E number \in {1, 2} :
        LET h == HdrOf(cls, obj)
            c == Val(h.common_hdr)
        IN  /\ c.curr_of_p + number * OpaqueField_LEN
                    <= c.src_addr_len + c.dst_addr_len + MaxAdvance * OpaqueField_LEN
            /\ obj' = WithHdr(cls, obj, SCIONHeader_increase_of(h, number))
    /\ op' = "increase_of"
    /\ out' = Returned(None)
    /\ UNCHANGED <<cls, wire, origin, loc>>

\* out.before is the header the call was made on
SetDownpath ==
    /\ Usable
    /\ IsNone(origin)
    /\ obj' = WithHdr(cls, obj, SCIONHeader_set_downpath(HdrOf(cls, obj)))
    /\ op' = "set_downpath"
    /\ out' = [kind |-> "return", v |-> None, before |-> HdrOf(cls, obj)]
    /\ UNCHANGED <<cls, wire, origin, loc>>

\* reverse(): "self.path.reverse()" (line 406) raises AttributeError when the
\* path is None, after the addresses have changed places
Reverse ==
    /\ Usable
    /\ IsNone(origin)
    /\ LET h == HdrOf(cls, obj)
       IN  IF IsNone(h.path)
           THEN /\ obj' = WithHdr(cls, obj, SCIONHeader_reverse_swap(h))
                /\ op' = "reverse_raised"
                /\ out' = [kind |-> "raise", v |-> "AttributeError", before |-> h]
           ELSE /\ obj' = WithHdr(cls, obj, SCIONHeader_reverse(h))
                /\ op' = "reverse"
                /\ out' = [kind |-> "return", v |-> None, before |-> h]
    /\ UNCHANGED <<cls, wire, origin, loc>>

\* a query leaves the object as it is; out.after is the position it was made at
IsOnUpPath ==
    /\ Usable
    /\ out' = [kind |-> "return", v |-> SCIONHeader_is_on_up_path(HdrOf(cls, obj)),
               after |-> op]
    /\ op' = "is_on_up_path"
    /\ UNCHANGED <<cls, obj, wire, origin, loc>>

IsLastPathOf ==
    /\ Usable
    /\ IsNone(origin)
    /\ out' = [kind |-> "return", v |-> SCIONHeader_is_last_path_of(HdrOf(cls, obj)),
               after |-> op]
    /\ op' = "is_last_path_of"
    /\ UNCHANGED <<cls, obj, wire, origin, loc>>

GetCurrentOf ==
    /\ Usable
    /\ IsNone(origin)
    /\ out' = [kind |-> "return", v |-> SCIONHeader_get_current_of(HdrOf(cls, obj)),
               after |-> op]
    /\ op' = "get_current_of"
    /\ UNCHANGED <<cls, obj, wire, origin, loc>>

\* out.n is the argument of the call
GetRelativeOf ==
    /\ Usable
    /\ IsNone(origin)
    /\ \E n \in {-1, 1, 2} :
        out' = [kind |-> "return", v |-> SCIONHeader_get_relative_of(HdrOf(cls, obj), n),
                after |-> op, n |-> n]
    /\ op' = "get_relative_of"
    /\ UNCHANGED <<cls, obj, wire, origin, loc>>

GetNextOf ==
    /\ Usable
    /\ IsNone(origin)
    /\ out' = [kind |-> "return", v |-> SCIONHeader_get_next_of(HdrOf(cls, obj)),
               after |-> op]
    /\ op' = "get_next_of"
    /\ UNCHANGED <<cls, obj, wire, origin, loc>>

GetType ==
    /\ Usable
    /\ cls \in PacketClasses
    /\ IsNone(origin)
    /\ out' = [kind |-> "return",
               v |-> get_type(Val(Val(obj.hdr).src_addr), Val(Val(obj.hdr).dst_addr)),
               after |-> op]
    /\ op' = "get_type"
    /\ UNCHANGED <<cls, obj, wire, origin, loc>>

\* get_addr_from_type(ptype), a function of the module; out.ptype is its argument
GetAddrFromType ==
    /\ op = "init"
    /\ \E ptype \in PacketTypes :
        out' = IF get_addr_from_type_raises(ptype)
               THEN [kind |-> "raise", v |-> "KeyError", ptype |-> ptype]
               ELSE [kind |-> "return", v |-> get_addr_from_type(ptype), ptype |-> ptype]
    /\ op' = "get_addr_from_type"
    /\ UNCHANGED <<cls, obj, wire, origin, loc>>

\* pack() of a packet; IFIDRequest and IFIDReply first store their payload
Pack ==
    /\ Usable
    /\ cls \in PacketClasses
    /\ IsNone(origin)
    /\ \E order \in ByteOrders :
        LET p == IF cls = "IFIDRequest"
                 THEN PayloadAssign(obj, StructPackHH(order, 0, Val(obj.f.request_id)))
                 ELSE IF cls = "IFIDReply"
                 THEN PayloadAssign(obj, StructPackHH(order, Val(obj.f.reply_id),
                                                      Val(obj.f.request_id)))
                 ELSE obj
        IN  /\ obj' = p
            /\ out' = IF ~CommonHdrFits(Val(Val(p.hdr).common_hdr))
                      THEN Raised("CreationError")
                      ELSE IF IsNone(p.payload) THEN Raised("TypeError")
                      ELSE Returned(SCIONPacket_pack(p))
    /\ op' = "pack"
    /\ UNCHANGED <<cls, wire, origin, loc>>

\* parse(raw) on a new object of the class, up to the extension loop
ParseStart(raw, org) ==
    /\ wire' = Some(raw)
    /\ origin' = org
    /\ cls' = cls
    /\ IF cls = "SCIONHeader"
       THEN IF Len(raw) < SCIONHeader_MIN_LEN
            THEN /\ obj' = Fresh(cls)
                 /\ op' = "parse_returned"
                 /\ out' = Returned(None)
                 /\ loc' = WalkIdle
            ELSE /\ obj' = SCIONHeader_parse_head(Fresh(cls), raw)
                 /\ op' = "ext_walk"
                 /\ out' = NoResult
                 /\ loc' = WalkEnter(obj')
       ELSE LET p0 == [Fresh(cls) EXCEPT !.raw = Some(raw)]
            IN  IF Len(raw) < SCIONPacket_MIN_LEN
                THEN /\ obj' = p0
                     /\ loc' = WalkIdle
                     /\ IF cls = "SCIONPacket"
                        THEN op' = "parse_returned" /\ out' = Returned(None)
                        ELSE op' = "raised" /\ out' = Raised(DecodeError(cls, p0.payload))
                ELSE IF Len(raw) < SCIONHeader_MIN_LEN
                THEN /\ obj' = [p0 EXCEPT !.hdr = Some(SCIONHeader_init)]
                     /\ loc' = WalkIdle
                     /\ op' = "raised"
                     /\ out' = Raised("AttributeError")
                ELSE /\ obj' = [p0 EXCEPT !.hdr =
                                    Some(SCIONHeader_parse_head(SCIONHeader_init, raw))]
                     /\ op' = "ext_walk"
                     /\ out' = NoResult
                     /\ loc' = WalkEnter(Val(obj'.hdr))

\* parse() of the bytes pack() returned
ParsePacked ==
    /\ op = "pack"
    /\ cls \in PacketClasses \cup {"SCIONHeader"}
    /\ out.kind = "return"
    /\ ParseStart(out.v, Some(obj))

\* parse() of a buffer that did not come from pack()
ParseBuffer ==
    /\ op = "init"
    /\ cls \in PacketClasses \cup {"SCIONHeader"}
    /\ \E raw \in RawBuffers(cls) : ParseStart(raw, None)

\* one iteration of "while cur_hdr_type != 0" (lines 293-305)
ExtWalkStep ==
    /\ op = "ext_walk"
    /\ loc.cur_hdr_type # 0
    /\ loc.iter < Len(Val(wire)) + MaxWalk
    /\ IF Len(Slice(Val(wire), loc.offset, loc.offset + 2)) < 2
       THEN /\ op' = "raised"
            /\ out' = Raised("ReadError")
            /\ UNCHANGED <<obj, loc>>
       ELSE /\ obj' = WithHdr(cls, obj, WalkAppend(HdrOf(cls, obj), loc, Val(wire)))
            /\ loc' = WalkNext(loc, Val(wire))
            /\ UNCHANGED <<op, out>>
    /\ UNCHANGED <<cls, wire, origin>>

\* the loop is left: the header is parsed (line 306), SCIONPacket.parse goes on
\* (lines 479-482), then the subclass decodes its payload
ParseFinish ==
    /\ op = "ext_walk"
    /\ loc.cur_hdr_type = 0
    /\ LET h == [HdrOf(cls, obj) EXCEPT !.parsed = TRUE]
       IN  IF cls = "SCIONHeader"
           THEN obj' = h /\ op' = "parsed" /\ out' = Returned(None)
           ELSE LET p == SCIONPacket_parse_tail(WithHdr(cls, obj, h), Val(wire))
                IN  IF DecodeNeeds(cls, Len(Val(p.payload)))
                    THEN /\ op' = "parsed"
                         /\ out' = Returned(None)
                         /\ IF cls = "SCIONPacket" THEN obj' = p
                            ELSE \E order \in ByteOrders :
                                    obj' = [p EXCEPT !.f =
                                        DecodeFields(cls, order, Val(p.payload))]
                    ELSE /\ obj' = p
                         /\ op' = "raised"
                         /\ out' = Raised(DecodeError(cls, p.payload))
    /\ UNCHANGED <<cls, wire, origin, loc>>

Next ==
    \/ CommonHdrFromValues
    \/ CommonHdrAssign
    \/ CommonHdrPack
    \/ CommonHdrParse
    \/ HeaderFromValues
    \/ HeaderPack
    \/ PacketFromValues
    \/ IFIDRequestFromValues
    \/ IFIDReplyFromValues
    \/ CertChainRequestFromValues
    \/ CertChainReplyFromValues
    \/ TRCRequestFromValues
    \/ TRCReplyFromValues
    \/ SetPayload
    \/ IncreaseOf
    \/ SetDownpath
    \/ Reverse
    \/ IsOnUpPath
    \/ IsLastPathOf
    \/ GetCurrentOf
    \/ GetRelativeOf
    \/ GetNextOf
    \/ GetType
    \/ GetAddrFromType
    \/ Pack
    \/ ParsePacked
    \/ ParseBuffer
    \/ ExtWalkStep
    \/ ParseFinish

Spec == Init /\ [][Next]_vars

---------------------------------------------------------------------------
(* Properties *)

\* the common header of a header
ChdrOf(h) == Val(h.common_hdr)

\* the fields of a common header that travel on the wire
WireFields(c) ==
    <<c.type, c.src_addr_len, c.dst_addr_len, c.total_len, c.curr_iof_p, c.curr_of_p,
      c.next_hdr, c.hdr_len>>

\* next_hdr and the embedded types chain the extension headers and end in 0,
\* each header is as long as its length byte says and of the class of its type
ChainConsistent(next_hdr, exts) ==
    IF exts = <<>> THEN next_hdr = 0
    ELSE /\ next_hdr # 0
         /\ \A i \in 1..Len(exts) :
                /\ Len(exts[i].raw) >= 2
                /\ exts[i].raw[2] = Len(exts[i].raw)
                /\ (exts[i].raw[1] = 0) <=> (i = Len(exts))
                /\ LET t == IF i = 1 THEN next_hdr ELSE exts[i - 1].raw[1]
                   IN  (exts[i].variant = "ICNExtHdr") <=> (t = ICNExtHdr_TYPE)

\* p is what SCIONPacket.from_values returns for the values it holds
BuiltByFromValues(p) ==
    /\ ~IsNone(p.hdr)
    /\ ~IsNone(p.payload)
    /\ ~IsNone(Val(p.hdr).common_hdr)
    /\ p = SCIONPacket_from_values(Val(Val(p.hdr).src_addr), Val(Val(p.hdr).dst_addr),
                                   Val(p.payload), Val(p.hdr).path,
                                   Val(p.hdr).extension_hdrs,
                                   ChdrOf(Val(p.hdr)).next_hdr, ChdrOf(Val(p.hdr)).type)

\* a SCIONPacket is parsing, or has parsed, the bytes pack() returned for a
\* packet from_values built with a consistent extension list
RoundTripOfBuilt ==
    /\ cls = "SCIONPacket"
    /\ ~IsNone(origin)
    /\ op \in {"ext_walk", "parsed", "parse_returned", "raised"}
    /\ BuiltByFromValues(Val(origin))
    /\ ChainConsistent(ChdrOf(Val(Val(origin).hdr)).next_hdr,
                       Val(Val(origin).hdr).extension_hdrs)

\* C1: parsing the bytes pack() returns for a packet built by from_values gives
\* a packet marked parsed with the same common header fields and pointers,
\* addresses, path, extension headers and payload
C1_RoundTrip ==
    RoundTripOfBuilt =>
        /\ op \in {"ext_walk", "parsed"}
        /\ op = "parsed" =>
            LET h == Val(obj.hdr)
                g == Val(Val(origin).hdr)
            IN  /\ obj.parsed
                /\ h.parsed
                /\ WireFields(ChdrOf(h)) = WireFields(ChdrOf(g))
                /\ h.src_addr = g.src_addr
                /\ h.dst_addr = g.dst_addr
                /\ h.path = g.path
                /\ h.extension_hdrs = g.extension_hdrs
                /\ obj.payload = Val(origin).payload

\* every field fits the width pack() gives it
InWidth(c) ==
    /\ c.type \in 0..15
    /\ c.src_addr_len \in 0..63
    /\ c.dst_addr_len \in 0..63
    /\ c.total_len \in 0..65535
    /\ c.curr_iof_p \in 0..255
    /\ c.curr_of_p \in 0..255
    /\ c.next_hdr \in 0..255
    /\ c.hdr_len \in 0..255

\* C2: pack() of a common header whose fields fit returns 8 bytes that begin
\* with (type<<12) | (dst_addr_len<<6) | src_addr_len, and parse() of them
\* yields every field again, the two address lengths not exchanged
C2_CommonHdrRoundTrip ==
    cls = "SCIONCommonHdr" =>
        /\ (op = "pack" /\ InWidth(obj)) =>
            /\ out.kind = "return"
            /\ Len(out.v) = 8
            /\ out.v[1] * 256 + out.v[2]
                = obj.type * 4096 + obj.dst_addr_len * 64 + obj.src_addr_len
        /\ (op = "parse_returned" /\ ~IsNone(origin)) =>
            (InWidth(Val(origin)) =>
                /\ obj.parsed
                /\ WireFields(obj) = WireFields(Val(origin)))

\* C3: after from_values or parse and any set_payload calls, total_len is
\* hdr_len plus the extension lengths plus payload_len, and payload_len is the
\* length of the stored payload
C3_LengthInvariant ==
    (cls = "SCIONPacket" /\ op \in {"from_values", "parsed", "set_payload"}) =>
        /\ ~IsNone(obj.payload)
        /\ obj.payload_len = Len(Val(obj.payload))
        /\ ChdrOf(Val(obj.hdr)).total_len
            = ChdrOf(Val(obj.hdr)).hdr_len + ExtHdrsLen(Val(obj.hdr).extension_hdrs)
                + obj.payload_len

\* the fewest bytes parse() of the class needs: SCIONCommonHdr.LEN for the
\* common header, SCIONHeader.MIN_LEN for a header, also inside a packet
ParseMinimum(c) ==
    IF c = "SCIONCommonHdr" THEN SCIONCommonHdr_LEN ELSE SCIONHeader_MIN_LEN

\* the parsed flags of the object under test
ParsedFlags(c, o) ==
    IF c \in {"SCIONCommonHdr", "SCIONHeader"} THEN {o.parsed}
    ELSE {o.parsed} \cup (IF IsNone(o.hdr) THEN {} ELSE {Val(o.hdr).parsed})

\* C4: parse() of a buffer shorter than the minimum (8 bytes for the common
\* header and the packet, 16 for the header, also inside a packet or a control
\* packet) returns without raising and leaves the parsed flag false
C4_ShortBufferNotParsed ==
    (/\ op \in {"ext_walk", "parsed", "parse_returned", "raised"}
     /\ Len(Val(wire)) < ParseMinimum(cls)) =>
        /\ op = "parse_returned"
        /\ ParsedFlags(cls, obj) = {FALSE}

\* a header or packet is parsing, or has parsed, the bytes pack() returned for
\* an object built by from_values with a consistent extension list
ChainRoundTrip ==
    /\ cls \in {"SCIONHeader", "SCIONPacket"}
    /\ ~IsNone(origin)
    /\ op \in {"ext_walk", "parsed", "parse_returned", "raised"}
    /\ ~Val(origin).parsed
    /\ ChainConsistent(ChdrOf(HdrOf(cls, Val(origin))).next_hdr,
                       HdrOf(cls, Val(origin)).extension_hdrs)

\* where the k-th extension header of a packed header begins (0-based offset)
RECURSIVE ExtStart(_, _)
ExtStart(g, k) ==
    IF k = 1 THEN ChdrOf(g).hdr_len
    ELSE ExtStart(g, k - 1) + g.extension_hdrs[k - 1].raw[2]

\* the extension headers parse() ends with are the N packed ones, in order,
\* each the record_len bytes that start where the one before ended
ChainParsedInOrder ==
    /\ op # "raised"
    /\ op \in {"parsed", "parse_returned"} =>
        LET exts == HdrOf(cls, obj).extension_hdrs
            g == HdrOf(cls, Val(origin))
        IN  /\ Len(exts) = Len(g.extension_hdrs)
            /\ \A k \in 1..Len(exts) :
                /\ exts[k].raw = Slice(Val(wire), ExtStart(g, k),
                                       ExtStart(g, k) + g.extension_hdrs[k].raw[2])
                /\ exts[k] = g.extension_hdrs[k]

\* C5 as claimed: every header with a well-formed chain of N records parses
\* into exactly those N records, in wire order; none when next_hdr is 0
C5_Original == ChainRoundTrip => ChainParsedInOrder

\* C5: a header of at least SCIONHeader.MIN_LEN bytes with a well-formed chain
\* of N records parses into exactly those N records, in wire order, each built
\* from the record_len bytes that start where the one before ended; none when
\* next_hdr is 0
C5_ExtChainParsed ==
    (ChainRoundTrip /\ Len(Val(wire)) >= SCIONHeader_MIN_LEN) => ChainParsedInOrder

C5_Witness ==
    /\ ChainRoundTrip
    /\ op = "parsed"
    /\ cls = "SCIONHeader"
    /\ Len(HdrOf(cls, obj).extension_hdrs) = 2
    /\ HdrOf(cls, obj).extension_hdrs[2].raw[1] = 0

\* C6: the extension loop ends on every buffer: a chain that does not reach
\* type 0 is reported as MalformedExtensionChain, the loop neither runs on
\* (more iterations than the buffer has bytes) nor fails on a read past the end
C6_WalkTerminates ==
    /\ op = "ext_walk" => loc.iter <= Len(Val(wire))
    /\ (op = "raised" /\ loc.cur_hdr_type # 0) => out.v = "MalformedExtensionChain"

\* the control packet has just been built by from_values
ControlBuilt == cls \in ControlClasses /\ op = "from_values"

\* the header type a request's from_values was given: the one whose reserved
\* address is the destination
RequestTypeGiven(h, types) ==
    /\ ChdrOf(h).type \in types
    /\ h.dst_addr = Some(get_addr_from_type(ChdrOf(h).type))

\* the header types of the four certificate and TRC packets
CertAndTRCTypes ==
    LET h == Val(obj.hdr)
    IN  /\ cls = "CertChainRequest" =>
                RequestTypeGiven(h, {CERT_CHAIN_REQ, CERT_CHAIN_REQ_LOCAL})
        /\ cls = "CertChainReply" => ChdrOf(h).type = CERT_CHAIN_REP
        /\ cls = "TRCRequest" => RequestTypeGiven(h, {TRC_REQ, TRC_REQ_LOCAL})
        /\ cls = "TRCReply" => ChdrOf(h).type = TRC_REP

\* C7 as claimed: from_values of each control packet sets the header type to
\* the constant of its kind, IFID_REQ and IFID_REP for the two IFID packets
C7_Original ==
    ControlBuilt =>
        /\ CertAndTRCTypes
        /\ cls = "IFIDRequest" => ChdrOf(Val(obj.hdr)).type = IFID_REQ
        /\ cls = "IFIDReply" => ChdrOf(Val(obj.hdr)).type = IFID_REP

\* C7: from_values of IFIDRequest and of IFIDReply sets the header type to
\* DATA; from_values of the other four sets it to the constant of the kind
\* (the request type given, CERT_CHAIN_REP, TRC_REP)
C7_ControlTypes ==
    ControlBuilt =>
        /\ CertAndTRCTypes
        /\ cls = "IFIDRequest" => ChdrOf(Val(obj.hdr)).type = DATA
        /\ cls = "IFIDReply" => ChdrOf(Val(obj.hdr)).type = DATA

C7_Witness ==
    /\ ControlBuilt
    /\ cls = "IFIDRequest"
    /\ Val(obj.hdr).dst_addr = Some(get_addr_from_type(IFID_REQ))
    /\ obj.f.request_id = Some(258)

\* the fields of a control packet in the order and widths (bytes) of its
\* payload layout
PayloadLayout(c, f) ==
    CASE c = "IFIDRequest" -> <<<<0, 2>>, <<Val(f.request_id), 2>>>>
      [] c = "IFIDReply" -> <<<<Val(f.reply_id), 2>>, <<Val(f.request_id), 2>>>>
      [] c = "CertChainRequest" ->
            <<<<f.ingress_if, 2>>, <<f.src_isd, 2>>, <<f.src_ad, 8>>, <<f.isd_id, 2>>,
              <<f.ad_id, 8>>, <<f.version, 4>>>>
      [] c = "CertChainReply" -> <<<<f.isd_id, 2>>, <<f.ad_id, 8>>, <<f.version, 4>>>>
      [] c = "TRCRequest" ->
            <<<<f.ingress_if, 2>>, <<f.src_isd, 2>>, <<f.src_ad, 8>>, <<f.isd_id, 2>>,
              <<f.version, 4>>>>
      [] c = "TRCReply" -> <<<<f.isd_id, 2>>, <<f.version, 4>>>>

PayloadTrailer(c, f) ==
    IF c = "CertChainReply" THEN f.cert_chain ELSE IF c = "TRCReply" THEN f.trc ELSE <<>>

\* the big-endian record of a layout, followed by the trailing bytes
LayoutBytes(c, f) ==
    LET l == PayloadLayout(c, f)
    IN  Concat([i \in 1..Len(l) |-> UintBE(l[i][1], l[i][2])]) \o PayloadTrailer(c, f)

\* C8: right after from_values of a control packet the payload is the
\* serialization of its fields, payload_len is its length, and total_len
\* includes it
C8_PayloadAfterFromValues ==
    ControlBuilt =>
        /\ obj.payload = Some(LayoutBytes(cls, obj.f))
        /\ obj.payload_len = Len(LayoutBytes(cls, obj.f))
        /\ ChdrOf(Val(obj.hdr)).total_len
            = ChdrOf(Val(obj.hdr)).hdr_len + Len(LayoutBytes(cls, obj.f))

\* o is what from_values of the reply class returns for the values it holds
BuiltReply(c, o) ==
    /\ ~o.parsed
    /\ ~IsNone(o.hdr)
    /\ ~Val(o.hdr).parsed
    /\ ~IsNone(Val(o.hdr).dst_addr)
    /\ IF c = "TRCReply" THEN o = TRCReply_from_values(Val(Val(o.hdr).dst_addr), o.f)
       ELSE o = CertChainReply_from_values(Val(Val(o.hdr).dst_addr), o.f)

\* a reply is parsing, or has parsed, the bytes pack() returned for a reply
\* built by from_values
ReplyRoundTrip ==
    /\ cls \in {"TRCReply", "CertChainReply"}
    /\ ~IsNone(origin)
    /\ op \in {"ext_walk", "parsed", "parse_returned", "raised"}
    /\ BuiltReply(cls, Val(origin))

\* C9: a TRCReply or CertChainReply built by from_values parses back from its
\* packed bytes with the same fixed fields and trailing bytes, and its payload
\* is 6 (TRCReply) or 14 (CertChainReply) bytes longer than the trailing bytes
C9_ReplyRoundTrip ==
    ReplyRoundTrip =>
        /\ op \in {"ext_walk", "parsed"}
        /\ op = "parsed" =>
            /\ obj.f = Val(origin).f
            /\ obj.payload_len = (IF cls = "TRCReply" THEN 6 ELSE 14)
                                    + Len(PayloadTrailer(cls, Val(origin).f))
            /\ obj.payload_len = Len(Val(obj.payload))

C9_Witness ==
    /\ ReplyRoundTrip
    /\ op = "parsed"
    /\ cls = "TRCReply"
    /\ obj.f.isd_id = 258
    /\ obj.f.trc = <<65, 66, 67, 68>>
    /\ obj.payload_len = 10

\* the opaque field of a path that a pointer designates, if it is in the path
FieldAt(h, ptr) ==
    LET i == (ptr - (ChdrOf(h).src_addr_len + ChdrOf(h).dst_addr_len)) \div OpaqueField_LEN
    IN  IF i \in 0..(Len(Val(h.path).ofs) - 1) THEN Some(Val(h.path).ofs[i + 1]) ELSE None

\* C10: is_on_up_path() returns the up flag of the current info field when
\* there is a path and True when there is none; it returns False right after
\* set_downpath() on a header with a path; set_downpath() on a header without
\* a path changes nothing
C10_UpPath ==
    LET h == HdrOf(cls, obj)
    IN  /\ (op = "is_on_up_path" /\ IsNone(h.path)) => out.v = Some(TRUE)
        /\ (op = "is_on_up_path" /\ ~IsNone(h.path)) =>
                (~IsNone(FieldAt(h, ChdrOf(h).curr_iof_p)) =>
                    /\ out.v = Some(Val(FieldAt(h, ChdrOf(h).curr_iof_p)).up_flag)
                    /\ out.after = "set_downpath" => out.v = Some(FALSE))
        /\ (op = "set_downpath" /\ IsNone(h.path)) => out.before = h

\* what reverse() leaves as it found it
KeptByReverse(h) ==
    <<ChdrOf(h).hdr_len, ChdrOf(h).total_len, ChdrOf(h).next_hdr, ChdrOf(h).type,
      h.extension_hdrs>>

\* C11: reverse() on a header built by from_values or parse, at any pointer
\* position, returns with the two addresses exchanged, the path reversed and
\* both pointers at src_addr_len + dst_addr_len; hdr_len, total_len, next_hdr,
\* type and the extension headers are as before
C11_Reverse ==
    op \in {"reverse", "reverse_raised"} =>
        LET h == HdrOf(cls, obj)
            b == out.before
        IN  /\ out.kind = "return"
            /\ h.src_addr = b.dst_addr
            /\ h.dst_addr = b.src_addr
            /\ ~IsNone(b.path)
            /\ h.path = Some(Path_reverse(Val(b.path)))
            /\ ChdrOf(h).curr_of_p = ChdrOf(h).src_addr_len + ChdrOf(h).dst_addr_len
            /\ ChdrOf(h).curr_iof_p = ChdrOf(h).src_addr_len + ChdrOf(h).dst_addr_len
            /\ KeptByReverse(h) = KeptByReverse(b)

\* the object was built by from_values and has not been through parse()
NeverParsed == IsNone(wire) /\ cls # "SCIONCommonHdr" /\ op # "init"

\* the number of slots the opaque-field pointer is past the path start
SlotsAdvanced(h) ==
    (ChdrOf(h).curr_of_p - (ChdrOf(h).src_addr_len + ChdrOf(h).dst_addr_len))
        \div OpaqueField_LEN

\* C12: on a header built by from_values with a path of k >= 1 opaque fields,
\* whose pointer has been advanced by i slots from the path start,
\* is_last_path_of() is true if and only if i = k - 1: false before the final
\* slot, true at it, false again past it
C12_IsLastPathOf ==
    (op = "is_last_path_of" /\ NeverParsed) =>
        LET h == HdrOf(cls, obj)
        IN  (~IsNone(h.path) /\ Len(Val(h.path).ofs) >= 1) =>
                (out.v <=> (SlotsAdvanced(h) = Len(Val(h.path).ofs) - 1))

C12_Witness ==
    /\ op = "is_last_path_of"
    /\ NeverParsed
    /\ out.after = "increase_of"
    /\ ~IsNone(HdrOf(cls, obj).path)
    /\ Len(Val(HdrOf(cls, obj).path).ofs) = 2
    /\ SlotsAdvanced(HdrOf(cls, obj)) = 1
    /\ out.v

\* positions at which the object under test holds a header with its common
\* header
HeaderQueries ==
    {"is_on_up_path", "is_last_path_of", "get_current_of", "get_relative_of",
     "get_next_of"}

HasHeader ==
    /\ cls # "SCIONCommonHdr"
    /\ op \in ReadyOps \cup HeaderQueries

\* the element of the header's path at index q (0-based), None when the header
\* has no path or the path no such element
ElementAt(h, q) ==
    IF IsNone(h.path) THEN None
    ELSE IF q >= 0 /\ q < Len(Val(h.path).ofs) THEN Some(Val(h.path).ofs[q + 1])
    ELSE None

\* C13: in every header built by from_values or parse and changed by
\* increase_of and reverse, curr_of_p - (src_addr_len + dst_addr_len) is a
\* non-negative multiple of 8; get_current_of() returns the path element at
\* that quotient, get_relative_of(n) the one at quotient + n, get_next_of() the
\* one at quotient + 1, and each returns None when there is no path
C13_PointerInvariant ==
    HasHeader =>
        LET h == HdrOf(cls, obj)
            d == ChdrOf(h).curr_of_p - (ChdrOf(h).src_addr_len + ChdrOf(h).dst_addr_len)
        IN  /\ d >= 0
            /\ d % OpaqueField_LEN = 0
            /\ op = "get_current_of" => out.v = ElementAt(h, d \div OpaqueField_LEN)
            /\ op = "get_relative_of" =>
                    out.v = ElementAt(h, d \div OpaqueField_LEN + out.n)
            /\ op = "get_next_of" => out.v = ElementAt(h, d \div OpaqueField_LEN + 1)

\* the types a table maps to the host number of an address
TypesOf(table, addr) == {t \in DOMAIN table : table[t] = SCIONAddr_host_int(addr)}

\* the control type of a control packet built by from_values: the request type
\* given, carried by the header, or the constant of the class
ControlTypeOf(c, h) ==
    CASE c = "IFIDRequest" -> IFID_REQ
      [] c = "IFIDReply" -> IFID_REP
      [] c = "CertChainReply" -> CERT_CHAIN_REP
      [] c = "TRCReply" -> TRC_REP
      [] OTHER -> ChdrOf(h).type

\* the address the caller of a control packet's from_values supplies
CallerAddr(c, h) ==
    IF c \in {"IFIDReply", "CertChainReply", "TRCReply"} THEN Val(h.dst_addr)
    ELSE Val(h.src_addr)

\* C14: get_type(pkt) returns the type TYPES_SRC maps to the source address
\* when there is one, whatever the destination; otherwise the type TYPES_DST
\* maps to the destination address; otherwise DATA.  For a control packet
\* built by from_values with a caller address that is not reserved it returns
\* the packet's control type.  get_addr_from_type(type) raises for a type in
\* neither table.
C14_Registry ==
    /\ op = "get_type" =>
        LET h == Val(obj.hdr)
            bySrc == TypesOf(TYPES_SRC, Val(h.src_addr))
            byDst == TypesOf(TYPES_DST, Val(h.dst_addr))
        IN  /\ IF bySrc # {} THEN out.v \in bySrc
               ELSE IF byDst # {} THEN out.v \in byDst
               ELSE out.v = DATA
            /\ (/\ cls \in ControlClasses
                /\ out.after = "from_values"
                /\ TypesOf(TYPES_SRC, CallerAddr(cls, h)) = {}
                /\ TypesOf(TYPES_DST, CallerAddr(cls, h)) = {}) =>
                    out.v = ControlTypeOf(cls, h)
    /\ op = "get_addr_from_type" =>
        ((out.ptype \notin DOMAIN TYPES_SRC /\ out.ptype \notin DOMAIN TYPES_DST)
            => out.kind = "raise")

C14_Witness ==
    /\ op = "get_type"
    /\ cls = "SCIONPacket"
    /\ TypesOf(TYPES_SRC, Val(Val(obj.hdr).src_addr)) = {CERT_CHAIN_REP}
    /\ TypesOf(TYPES_DST, Val(Val(obj.hdr).dst_addr)) = {TRC_REQ}
    /\ out.v = CERT_CHAIN_REP

\* the object holds a header that was built by from_values and has not been
\* through parse()
BuiltHeader ==
    /\ IsNone(wire)
    /\ cls # "SCIONCommonHdr"
    /\ op \in ReadyOps \cup HeaderQueries \cup {"reverse_raised", "get_type", "pack"}

\* the number of bytes the path of a header packs to
PathByteLen(h) ==
    IF IsNone(h.path) THEN 0 ELSE OpaqueField_LEN * Len(Val(h.path).ofs)

\* C15: in every state reached by from_values and any sequence of increase_of,
\* reverse, set_downpath and set_payload, hdr_len is 8 + src_addr_len +
\* dst_addr_len + the byte length of the path; directly after from_values both
\* pointers are src_addr_len + dst_addr_len and total_len is hdr_len plus the
\* extension lengths (plus the payload a packet's from_values stores)
C15_HdrLen ==
    BuiltHeader =>
        LET h == HdrOf(cls, obj)
            c == ChdrOf(h)
        IN  /\ c.hdr_len = SCIONCommonHdr_LEN + c.src_addr_len + c.dst_addr_len
                            + PathByteLen(h)
            /\ op = "from_values" =>
                /\ c.curr_of_p = c.src_addr_len + c.dst_addr_len
                /\ c.curr_iof_p = c.src_addr_len + c.dst_addr_len
                /\ c.total_len = c.hdr_len + ExtHdrsLen(h.extension_hdrs)
                                    + (IF cls = "SCIONHeader" THEN 0 ELSE obj.payload_len)

C15_Witness ==
    /\ BuiltHeader
    /\ op = "reverse"
    /\ cls = "SCIONHeader"
    /\ PathByteLen(obj) = 2 * OpaqueField_LEN
    /\ Len(obj.extension_hdrs) = 2
    /\ ChdrOf(obj).src_addr_len # ChdrOf(obj).dst_addr_len
    /\ ChdrOf(out.before).curr_of_p > ChdrOf(obj).curr_of_p

\* C16: in every state reached by from_values and any sequence of reverse,
\* increase_of and set_payload, src_addr_len is the byte length of the
\* header's source address and dst_addr_len that of its destination address,
\* also after reverse() on a header whose addresses differ in length
C16_AddrLens ==
    BuiltHeader =>
        LET h == HdrOf(cls, obj)
        IN  /\ ChdrOf(h).src_addr_len = Len(Val(h.src_addr))
            /\ ChdrOf(h).dst_addr_len = Len(Val(h.dst_addr))

====
